---------------------------- MODULE Spec2Model ----------------------------
(***************************************************************************)
(* Opacity-MicroMap sample: the GPU-baker batch scheduler                  *)
(* (GetGpuBakerBatches, Source/OmmSample.hpp) and the on-disk mask cache   *)
(* (OmmCaching, Source/VisibilityMasks/OmmHelper.cpp).                     *)
(*                                                                         *)
(* Three state machines share the module:                                  *)
(*   SpecSched  one call of GetGpuBakerBatches, one loop iteration a step; *)
(*   Spec       the cache file, the process-wide index and the three cache *)
(*              operations, one call a step;                               *)
(*   SpecRun    the bake runs the settings panel starts (OmmGeometryUpdate *)
(*              and its callers), one pipeline step a step.                *)
(* Each specification keeps the other machines' variables fixed.           *)
(***************************************************************************)
EXTENDS Integers, Sequences, FiniteSets, TLC

VARIABLES
    \* ---- GetGpuBakerBatches (OmmSample.hpp:1680-1723)
    geometries,      \* per job: info.dataSizes[0..GpuOutputNum-1], as a tuple
    outputMaxSizes,  \* memoryStats.outputMaxSizes: the per-type budget
    batchSize,       \* the item cap passed by the caller
    i,               \* the loop index (0-based, as in the code)
    batches,         \* std::vector<OmmBatch>
    accumulation,    \* size_t accumulation[GpuOutputNum]
    pc,              \* "loop" | "done" | "idle" (idle: not in SpecSched)
    \* ---- OmmCaching (OmmHelper.cpp:467-740)
    fileExists,      \* the cache file exists on disc
    file,            \* its content, a sequence of cells (see HeaderSize)
    index,           \* m_IdentifierToDataOffset: identifier -> offset
    crashed,         \* the process died of undefined behaviour
    truncated,       \* history: the file was cut from outside since created
    everAppended,       \* history: SaveMasksToDisc has appended a record at some time
    stored,          \* history: key -> record appended to the file as it stands
    lastOp,          \* history: the last call, its arguments and its result
    \* ---- the bake runs (OmmSample.hpp:2023-2160, 2375-2409)
    ui,              \* the UI thread: its position, frameId, the panel, the future
    run,             \* the thread inside RebuildOmmGeometry[Async]: position and locals
    gpu,             \* GPU resources: masked geometry, baker buffers, upload buffers
    hist,            \* history: what the runs did, for the properties
    \* ---- single calls of the pure functions (Part 9)
    calc             \* the call under way: its arguments, then its result

schedVars == <<geometries, outputMaxSizes, batchSize, i, batches, accumulation, pc>>
cacheVars == <<fileExists, file, index, crashed, truncated, everAppended, stored, lastOp>>
runVars == <<ui, run, gpu, hist>>
vars == <<geometries, outputMaxSizes, batchSize, i, batches, accumulation, pc,
          fileExists, file, index, crashed, truncated, everAppended, stored, lastOp,
          ui, run, gpu, hist, calc>>

(***************************************************************************)
(* Part 1.  GetGpuBakerBatches                                             *)
(***************************************************************************)

\* OmmDataLayout: ArrayData .. GpuPostBuildInfo, then MaxNum (OmmHelper.h:103-115)
GpuOutputNum == 6
CpuMaxNum == 5

\* Types are numbered 1..GpuOutputNum here (0..GpuOutputNum-1 in the code).
Types == 1 .. GpuOutputNum

\* ---- bounds of the scheduler's inputs
MaxJobs == 4

\* A job's prebuild info with a bytes of array data and b bytes of indices.
PrebuildInfo(a, b) ==
    [y \in Types |-> IF y = 1 THEN a ELSE IF y = 3 THEN b ELSE 0]

JobInfos == { PrebuildInfo(5, 0), PrebuildInfo(10, 0), PrebuildInfo(1, 7), PrebuildInfo(13, 2) }
Budgets == { PrebuildInfo(12, 7), PrebuildInfo(25, 9) }
Caps == 0 .. (MaxJobs + 1)

RECURSIVE SeqsUpTo(_, _)
SeqsUpTo(S, n) ==
    IF n = 0 THEN { <<>> }
    ELSE LET shorter == SeqsUpTo(S, n - 1)
         IN  shorter \cup { Append(s, x) : s \in { t \in shorter : Len(t) = n - 1 }, x \in S }

\* The worked examples' family: n equal jobs of one resource type.
RECURSIVE Repeat(_, _)
Repeat(x, n) == IF n = 0 THEN <<>> ELSE Append(Repeat(x, n - 1), x)

ExampleJobs == 7
ExampleInputs ==
    { [g |-> Repeat(PrebuildInfo(s, 0), n), m |-> PrebuildInfo(b, 0), c |-> c] :
        n \in 0 .. ExampleJobs, s \in {5, 10}, b \in {12, 25}, c \in {3, ExampleJobs + 1} }

SchedInputs ==
    { [g |-> g, m |-> m, c |-> c] : g \in SeqsUpTo(JobInfos, MaxJobs), m \in Budgets, c \in Caps }
        \cup ExampleInputs

\* line 1682
BatchMaxSize == IF batchSize > Len(geometries) THEN Len(geometries) ELSE batchSize

\* lines 1692-1697: nextSizes[y] = accumulation[y] + info.dataSizes[y]
NextSizes == [y \in Types |-> accumulation[y] + geometries[i + 1][y]]

\* lines 1691-1697: isAnyOverLimit |= nextSizes[y] > memoryStats.outputMaxSizes[y]
IsAnyOverLimitFirstTypeOnly == NextSizes[1] > outputMaxSizes[1]
IsAnyOverLimit == \E y \in Types : NextSizes[y] > outputMaxSizes[y]

\* line 1701: batches.push_back({ i, 1 })
OverLimitBatchNextIndex == [offset |-> i + 1, count |-> 1]
OverLimitBatch == [offset |-> i, count |-> 1]

\* lines 1702-1703: accumulation[y] = info.dataSizes[y]
OverLimitAccumulationZeroed == [y \in Types |-> 0]
OverLimitAccumulation == [y \in Types |-> geometries[i + 1][y]]

\* line 1710: ++batches.back().count
CountedBack == [batches EXCEPT ![Len(batches)].count = @ + 1]

\* line 1711: batches.back().count >= batchMaxSize
CapReached == CountedBack[Len(batches)].count >= BatchMaxSize

\* not in SpecRun
runIdle ==
    /\ ui = <<>>
    /\ run = <<>>
    /\ gpu = <<>>
    /\ hist = <<>>

\* not in SpecCalc
calcIdle == calc = <<>>

cacheIdle ==
    /\ fileExists = FALSE
    /\ file = <<>>
    /\ index = <<>>
    /\ crashed = FALSE
    /\ truncated = FALSE
    /\ everAppended = FALSE
    /\ stored = {}
    /\ lastOp = [op |-> "None"]

\* lines 1682-1684: one default-constructed batch {0, 0}, accumulation zeroed
InitSched ==
    /\ \E inp \in SchedInputs :
          /\ geometries = inp.g
          /\ outputMaxSizes = inp.m
          /\ batchSize = inp.c
    /\ i = 0
    /\ batches = << [offset |-> 0, count |-> 0] >>
    /\ accumulation = [y \in Types |-> 0]
    /\ pc = "loop"
    /\ cacheIdle
    /\ runIdle
    /\ calcIdle

\* lines 1699-1705: the job does not fit: it opens a batch of its own
StepOverLimit ==
    /\ pc = "loop"
    /\ i < Len(geometries)
    /\ IsAnyOverLimit
    /\ batches' = Append(batches, OverLimitBatch)
    /\ accumulation' = OverLimitAccumulation
    /\ i' = i + 1
    /\ UNCHANGED <<geometries, outputMaxSizes, batchSize, pc>>
    /\ UNCHANGED cacheVars
    /\ UNCHANGED runVars
    /\ UNCHANGED calc

\* lines 1707-1719: the job fits, the cap is reached and jobs remain
StepAcceptAndClose ==
    /\ pc = "loop"
    /\ i < Len(geometries)
    /\ ~IsAnyOverLimit
    /\ CapReached
    /\ i + 1 < Len(geometries)
    /\ batches' = Append(CountedBack, [offset |-> i + 1, count |-> 0])
    /\ accumulation' = [y \in Types |-> 0]
    /\ i' = i + 1
    /\ UNCHANGED <<geometries, outputMaxSizes, batchSize, pc>>
    /\ UNCHANGED cacheVars
    /\ UNCHANGED runVars
    /\ UNCHANGED calc

\* lines 1707-1711: the job fits and the batch stays open
StepAccept ==
    /\ pc = "loop"
    /\ i < Len(geometries)
    /\ ~IsAnyOverLimit
    /\ ~(CapReached /\ i + 1 < Len(geometries))
    /\ batches' = CountedBack
    /\ accumulation' = NextSizes
    /\ i' = i + 1
    /\ UNCHANGED <<geometries, outputMaxSizes, batchSize, pc>>
    /\ UNCHANGED cacheVars
    /\ UNCHANGED runVars
    /\ UNCHANGED calc

\* line 1722: return batches
Return ==
    /\ pc = "loop"
    /\ i = Len(geometries)
    /\ pc' = "done"
    /\ UNCHANGED <<geometries, outputMaxSizes, batchSize, i, batches, accumulation>>
    /\ UNCHANGED cacheVars
    /\ UNCHANGED runVars
    /\ UNCHANGED calc

NextSched == StepOverLimit \/ StepAcceptAndClose \/ StepAccept \/ Return

SpecSched == InitSched /\ [][NextSched]_vars

\* ---- what the claims speak of
RECURSIVE SumSizes(_, _, _)
\* the sum of type y's sizes over count jobs starting at 0-based offset
SumSizes(offset, count, y) ==
    IF count = 0 THEN 0
    ELSE geometries[offset + count][y] + SumSizes(offset, count - 1, y)

Batch(k) == batches[k]
NumJobs == Len(geometries)

\* C1: the returned batches, read in order, partition [0, N): the first starts
\* at offset 0, each next one starts where the previous one ends, and the last
\* one ends at N.
C1_BatchesPartition ==
    pc = "done" =>
        /\ Len(batches) >= 1
        /\ Batch(1).offset = 0
        /\ \A k \in 1 .. Len(batches) - 1 :
              Batch(k + 1).offset = Batch(k).offset + Batch(k).count
        /\ Batch(Len(batches)).offset + Batch(Len(batches)).count = NumJobs
        /\ \A k \in 1 .. Len(batches) : Batch(k).count >= 0

\* C1 witness: a finished call with at least three batches, one opened by the
\* budget and one opened by the item cap.
C1_Witness ==
    /\ pc = "done"
    /\ Len(batches) >= 3
    /\ NumJobs = MaxJobs
    /\ \E k \in 2 .. Len(batches) : Batch(k).count >= 2
    /\ \E y \in Types : \E k \in 1 .. Len(batches) :
          Batch(k).count = 1 /\ SumSizes(Batch(k).offset, 1, y) > outputMaxSizes[y]

\* C2: every returned batch of more than one job stays within every type's
\* budget; only one-job batches may exceed one.
C2_BudgetRespected ==
    pc = "done" =>
        \A k \in 1 .. Len(batches) :
            Batch(k).count > 1 =>
                \A y \in Types :
                    SumSizes(Batch(k).offset, Batch(k).count, y) <= outputMaxSizes[y]

\* C2 witness: a finished call with a multi-job batch that a further job of
\* the input would have pushed over the budget of the second used type, and a
\* one-job batch that exceeds a budget alone.
C2_Witness ==
    /\ pc = "done"
    /\ \E k \in 1 .. Len(batches) - 1 :
          /\ Batch(k).count > 1
          /\ SumSizes(Batch(k).offset, Batch(k).count + 1, 3) > outputMaxSizes[3]
          /\ SumSizes(Batch(k).offset, Batch(k).count + 1, 1) <= outputMaxSizes[1]
    /\ \E k \in 1 .. Len(batches) :
          /\ Batch(k).count = 1
          /\ SumSizes(Batch(k).offset, 1, 1) > outputMaxSizes[1]

IsExample1 ==
    /\ geometries = Repeat(PrebuildInfo(5, 0), 7)
    /\ outputMaxSizes = PrebuildInfo(12, 0)
    /\ batchSize = 3

IsExample2 ==
    /\ geometries = Repeat(PrebuildInfo(10, 0), 5)
    /\ outputMaxSizes = PrebuildInfo(25, 0)
    /\ batchSize = ExampleJobs + 1

\* C3: the two worked examples give exactly the documented batch lists, with
\* no further (empty) batch.
C3_WorkedExamples ==
    pc = "done" =>
        /\ IsExample1 =>
              batches = << [offset |-> 0, count |-> 2], [offset |-> 2, count |-> 2],
                           [offset |-> 4, count |-> 2], [offset |-> 6, count |-> 1] >>
        /\ IsExample2 =>
              batches = << [offset |-> 0, count |-> 2], [offset |-> 2, count |-> 2],
                           [offset |-> 4, count |-> 1] >>

\* C3 witness: the first worked example has run to its end.
C3_Witness == pc = "done" /\ IsExample1 /\ Len(batches) = 4

\* C23 as stated: called with an item cap of at least 1, GetGpuBakerBatches
\* returns no batch of more than min(cap, N) jobs, whether the batch was
\* opened by the cap, by the budget or at the start.
C23_ItemCap ==
    (pc = "done" /\ batchSize >= 1) =>
        \A k \in 1 .. Len(batches) : Batch(k).count <= BatchMaxSize

\* C24 as stated: for N >= 1 jobs no returned batch is empty.
C24_NoEmptyBatch ==
    (pc = "done" /\ NumJobs >= 1) =>
        \A k \in 1 .. Len(batches) : Batch(k).count > 0


(***************************************************************************)
(* Part 2.  OmmCaching: hashes and keys                                    *)
(*                                                                         *)
(* The code computes in uint64_t.  The model computes in HashBits-bit      *)
(* unsigned arithmetic (every sum and product reduced modulo 2^HashBits),  *)
(* with the FNV constants reduced likewise and GetInstanceHash's shift of  *)
(* 32 = 64/2 scaled to HashBits/2.                                         *)
(***************************************************************************)

HashBits == 8

Wrap(x) == x % (2 ^ HashBits)

RECURSIVE Xor(_, _)
Xor(a, b) ==
    IF a = 0 THEN b
    ELSE IF b = 0 THEN a
    ELSE (((a % 2) + (b % 2)) % 2) + 2 * Xor(a \div 2, b \div 2)

\* a uint32_t (or the bits of a float) as it lies in memory, little-endian
Le32(v) == << v % 256, (v \div 256) % 256, (v \div 65536) % 256, (v \div 16777216) % 256 >>

BoolBytes(flags) == [k \in 1 .. Len(flags) |-> IF flags[k] THEN 1 ELSE 0]

\* OmmBakerType (OmmHelper.h:48-53)
GPU == 0
CPU == 1

\* CalculateSateHash's CommonState, in declaration order (lines 473-490)
CommonStateBytes(bakeDesc) ==
    Le32(bakeDesc.subdivisionLevel) \o Le32(bakeDesc.mipBias) \o Le32(bakeDesc.filter)
        \o Le32(bakeDesc.format) \o Le32(bakeDesc.type) \o Le32(bakeDesc.dynamicSubdivisionScale)

\* GpuState: CommonState, five bools, three bytes of zeroed padding (lines 492-500, 514-518)
GpuStateBytes(bakeDesc) ==
    CommonStateBytes(bakeDesc) \o BoolBytes(bakeDesc.gpuFlags) \o <<0, 0, 0>>

\* CpuState: CommonState, five bools, padding, mipCount (lines 502-512, 514-519)
CpuStateBytes(bakeDesc) ==
    CommonStateBytes(bakeDesc) \o BoolBytes(bakeDesc.cpuFlags) \o <<0, 0, 0>>
        \o Le32(bakeDesc.mipCount)

\* 14695981039346656037 = 0x...2325 and 1099511628211 = 0x...01B3: their low 16 bits
FnvOffsetBasisLow16 == 8997
FnvPrimeLow16 == 435

\* lines 524-527: result = (result ^ (*p++)) * 1099511628211ull.  The test on
\* result (an unsigned word, never negative) has the running hash evaluated at
\* every byte rather than as one nested expression at the end.
RECURSIVE Fnv1a(_, _, _)
Fnv1a(bytes, k, result) ==
    IF k > Len(bytes) \/ result < 0 THEN result
    ELSE Fnv1a(bytes, k + 1, Wrap(Wrap(Xor(result, bytes[k])) * Wrap(FnvPrimeLow16)))

\* lines 471-528
CalculateSateHash(bakeDesc) ==
    Fnv1a(IF bakeDesc.type = GPU THEN GpuStateBytes(bakeDesc) ELSE CpuStateBytes(bakeDesc),
          1, Wrap(FnvOffsetBasisLow16))

\* the pairing without its last term
CalculateIdentifierNoOffset(a, b) == Wrap(Wrap(Wrap(a + b) * Wrap(a + b + 1)) \div 2)

\* lines 530-534: ((a + b) * (a + b + 1)) / 2 + b
CalculateIdentifier(a, b) == Wrap((Wrap(Wrap(a + b) * Wrap(a + b + 1)) \div 2) + b)

\* OmmSample.hpp:748: uint64_t(meshId) << 32 | uint64_t(materialId)
HalfBits == HashBits \div 2
GetInstanceHash(meshId, materialId) == Wrap(meshId * (2 ^ HalfBits)) + (materialId % (2 ^ HalfBits))

\* ---- the bake configurations and jobs the cache is driven with
\* OmmBakeDesc's defaults (OmmHelper.h:73-87); 1065353216 = 0x3F800000 = 1.0f
DefaultBakeDesc ==
    [ subdivisionLevel |-> 9, mipBias |-> 0, mipCount |-> 1,
      dynamicSubdivisionScale |-> 1065353216, filter |-> 1, format |-> 1, type |-> GPU,
      cpuFlags |-> <<TRUE, TRUE, TRUE, FALSE, FALSE>>,
      gpuFlags |-> <<TRUE, TRUE, TRUE, FALSE, TRUE>> ]

BakeDescs ==
    << DefaultBakeDesc,
       [DefaultBakeDesc EXCEPT !.subdivisionLevel = 10],
       [DefaultBakeDesc EXCEPT !.type = CPU] >>

\* (meshIndex, materialIndex) of the alpha-tested geometries
Instances == << [meshIndex |-> 4, materialIndex |-> 0], [meshIndex |-> 0, materialIndex |-> 1] >>

Configs == 1 .. Len(BakeDescs)
Jobs == 1 .. Len(Instances)

StateHash == [c \in Configs |-> CalculateSateHash(BakeDescs[c])]
InstanceHash == [j \in Jobs |-> GetInstanceHash(Instances[j].meshIndex, Instances[j].materialIndex)]
CacheKey(c, j) == CalculateIdentifier(StateHash[c], InstanceHash[j])


(***************************************************************************)
(* Part 3.  OmmCaching: the file, the index and the operations             *)
(*                                                                         *)
(* The file is a sequence of cells.  A MaskHeader takes HeaderSize cells,  *)
(* one per field (instanceHash, stateHash, sizes[0..4], blobSize,          *)
(* ommIndexFormat); a segment of size n takes n cells, one per byte.       *)
(* Offsets are 0-based cell counts, as ftell's byte counts are.            *)
(***************************************************************************)

HeaderSize == CpuMaxNum + 4
Segments == 1 .. CpuMaxNum

\* nri::Format tags of the index buffer (OmmSample.hpp:537, 1456); the numbers
\* stand for NRI's enumerators
R16_UINT == 16
R32_UINT == 32

Uint16(x) == x % 65536

\* OmmData as SaveMasksToDisc receives it: data[i] holds sizes[i] bytes
MaskData(d, fmt) == [sizes |-> [k \in Segments |-> Len(d[k])], data |-> d, ommIndexFormat |-> fmt]

NoMasks == MaskData(<< <<>>, <<>>, <<>>, <<>>, <<>> >>, R16_UINT)

\* what the bake of job j under configuration c produced (OmmSample.hpp:1874-1890
\* hands it to SaveMasksToDisc); the second job's bake produced nothing
BakedMasks ==
    << << MaskData(<< <<1>>, <<2>>, <<3>>, <<4>>, <<5>> >>, R16_UINT), NoMasks >>,
       << MaskData(<< <<6, 7>>, <<8>>, <<9>>, <<10>>, <<11, 12>> >>, R32_UINT), NoMasks >>,
       << MaskData(<< <<13>>, <<14, 15>>, <<16>>, <<17>>, <<18>> >>, R32_UINT), NoMasks >> >>

\* ReadMaskFromCache's destinations: data.data[i] non-null, ommIndexFormat non-null
ReadRequests ==
    << [dests |-> [k \in Segments |-> FALSE], wantFormat |-> FALSE],
       [dests |-> [k \in Segments |-> TRUE], wantFormat |-> TRUE] >>
Reqs == 1 .. Len(ReadRequests)

\* ---- bound of the cache machine: the cells a file may grow to
MaxFileCells == 32

EmptyIndex == [x \in {} |-> 0]

\* std::map::insert: an existing entry is kept
Insert(idx, identifier, offset) ==
    IF identifier \in DOMAIN idx THEN idx
    ELSE [x \in DOMAIN idx \cup {identifier} |-> IF x = identifier THEN offset ELSE idx[x]]

\* n cells at 0-based offset pos
Cells(f, pos, n) == SubSeq(f, pos + 1, pos + n)

MakeHeader(h) == << h.instanceHash, h.stateHash >> \o h.sizes \o << h.blobSize, h.ommIndexFormat >>
ParseHeader(c) ==
    [ instanceHash |-> c[1], stateHash |-> c[2],
      sizes |-> [k \in Segments |-> c[2 + k]],
      blobSize |-> c[CpuMaxNum + 3], ommIndexFormat |-> c[CpuMaxNum + 4] ]

RECURSIVE SumTo(_, _)
SumTo(sizes, k) == IF k = 0 THEN 0 ELSE sizes[k] + SumTo(sizes, k - 1)

RECURSIVE Concat(_, _)
Concat(d, k) == IF k = 0 THEN <<>> ELSE Concat(d, k - 1) \o d[k]

\* the file system and the index, as one value the operations transform
World == [exists |-> fileExists, file |-> file, index |-> index]
Invalidated == [exists |-> FALSE, file |-> <<>>, index |-> EmptyIndex]

\* lines 711-722: the test of ValidateChunkRead; on failure its caller's world
\* becomes Invalidated (fclose, std::filesystem::remove, index cleared)
ValidateChunkRead(fileSize, currentPos, dataSize) == currentPos + dataSize <= fileSize

\* lines 536-561.  closed: a chunk read failed, so the file was closed and
\* removed and the index cleared inside the scan.
RECURSIVE PrewarmCache(_, _, _)
PrewarmCache(f, currentPos, idx) ==
    IF ~ValidateChunkRead(Len(f), currentPos, HeaderSize)
    THEN [closed |-> TRUE, index |-> EmptyIndex]
    ELSE LET currentHeader == ParseHeader(Cells(f, currentPos, HeaderSize))
             identifier == CalculateIdentifier(currentHeader.stateHash, currentHeader.instanceHash)
             inserted == Insert(idx, identifier, currentPos)
             blobPos == currentPos + HeaderSize
         IN  IF ~ValidateChunkRead(Len(f), blobPos, currentHeader.blobSize)
             THEN [closed |-> TRUE, index |-> EmptyIndex]
             ELSE IF blobPos + currentHeader.blobSize = Len(f)
                  THEN [closed |-> FALSE, index |-> inserted]
                  ELSE PrewarmCache(f, blobPos + currentHeader.blobSize, inserted)

\* line 565: the scan runs when the index is empty (and the file opens)
NeedsPrewarm(w) == DOMAIN w.index = {} /\ w.exists

\* lines 563-589.  doubleClose: PrewarmCache closed the file and line 576
\* closes it again (undefined behaviour).
LookForCache(w, stateMask, hash) ==
    LET scan == PrewarmCache(w.file, 0, EmptyIndex)
        w1 == IF ~NeedsPrewarm(w) THEN w
              ELSE IF scan.closed THEN Invalidated
              ELSE [w EXCEPT !.index = scan.index]
        identifier == CalculateIdentifier(stateMask, hash)
        found == identifier \in DOMAIN w1.index
    IN  [ w |-> w1,
          ret |-> found,
          dataOffset |-> IF found THEN w1.index[identifier] ELSE 0,
          removed |-> NeedsPrewarm(w) /\ scan.closed,
          doubleClose |-> NeedsPrewarm(w) /\ scan.closed ]

\* lines 617-627: memcpy from the front of the blob, then erase the front
Take(blob, n) == SubSeq(blob, 1, IF n < Len(blob) THEN n ELSE Len(blob))
Drop(blob, n) == SubSeq(blob, (IF n < Len(blob) THEN n ELSE Len(blob)) + 1, Len(blob))

RECURSIVE CopySegments(_, _, _, _)
CopySegments(blob, sizes, dests, k) ==
    IF k > CpuMaxNum THEN <<>>
    ELSE IF ~dests[k] THEN << <<>> >> \o CopySegments(blob, sizes, dests, k + 1)
    ELSE << Take(blob, sizes[k]) >> \o CopySegments(Drop(blob, sizes[k]), sizes, dests, k + 1)

\* a memcpy of lines 625-626 that reads past the end of the blob
RECURSIVE CopyOutOfBounds(_, _, _, _)
CopyOutOfBounds(blob, sizes, dests, k) ==
    IF k > CpuMaxNum THEN FALSE
    ELSE IF ~dests[k] THEN CopyOutOfBounds(blob, sizes, dests, k + 1)
    ELSE sizes[k] > Len(blob) \/ CopyOutOfBounds(Drop(blob, sizes[k]), sizes, dests, k + 1)

NoOutput == [sizes |-> [k \in Segments |-> 0], data |-> [k \in Segments |-> <<>>], ommIndexFormat |-> 0]

\* line 607: fseek(file, long(dataOffset), SEEK_SET)
SeekPosStart(dataOffset) == 0
SeekPos(dataOffset) == dataOffset

\* the returns of "false" of lines 595, 602, 611, 615
Miss(lk, wx, rem) ==
    [ w |-> wx, ret |-> FALSE, out |-> NoOutput, removed |-> rem,
      doubleClose |-> lk.doubleClose, outOfBounds |-> FALSE ]

\* lines 591-634
ReadMaskFromCache(w, req, stateMask, hash) ==
    LET lk == LookForCache(w, stateMask, hash)
        w1 == lk.w
        fileSize == Len(w1.file)
        pos == SeekPos(lk.dataOffset)
    IN  IF ~lk.ret THEN Miss(lk, w1, lk.removed)
        ELSE IF ~w1.exists THEN Miss(lk, [w1 EXCEPT !.index = EmptyIndex], FALSE)
        ELSE IF ~ValidateChunkRead(fileSize, pos, HeaderSize) THEN Miss(lk, Invalidated, TRUE)
        ELSE LET header == ParseHeader(Cells(w1.file, pos, HeaderSize))
                 blobPos == pos + HeaderSize
             IN  IF ~ValidateChunkRead(fileSize, blobPos, header.blobSize)
                 THEN Miss(lk, Invalidated, TRUE)
                 ELSE LET blob == Cells(w1.file, blobPos, header.blobSize)
                      IN  [ w |-> w1, ret |-> TRUE,
                            out |-> [ sizes |-> header.sizes,
                                      data |-> CopySegments(blob, header.sizes, req.dests, 1),
                                      ommIndexFormat |->
                                          IF req.wantFormat THEN header.ommIndexFormat ELSE 0 ],
                            removed |-> FALSE,
                            doubleClose |-> FALSE,
                            outOfBounds |-> CopyOutOfBounds(blob, header.sizes, req.dests, 1) ]

\* lines 698-709: a failed fwrite closes and removes the file and clears the index
WriteChunkFailedKeepsFile(w) == [w EXCEPT !.index = EmptyIndex]
WriteChunkFailed(w) == Invalidated

\* line 683: insert(std::make_pair(identifier, fileSize))
SavedOffsetAfterRecord(fileSize, recordSize) == fileSize + recordSize
SavedOffset(fileSize, recordSize) == fileSize

\* lines 638-639: the mask for this state is already cached
NeverCached(found) == FALSE
AlreadyCached(found) == found

\* lines 641, 677-680: the file is opened "ab", every fwrite lands at its end
OverwriteRecord(f, record) == record
AppendRecord(f, record) == f \o record

\* what a call of SaveMasksToDisc did: the world it leaves, the step that
\* failed, whether it appended a record, whether the file was removed
Done(lk, wx, failed, app, rem) ==
    [ w |-> wx, fault |-> failed, appended |-> app, removed |-> rem, doubleClose |-> lk.doubleClose ]

\* lines 636-687.  fault: the step that fails should it be reached
\* ("open": fopen for append, "header"/"blob": the fwrite of that chunk).
SaveMasksToDisc(w, data, stateMask, hash, ommIndexFormat, fault) ==
    LET lk == LookForCache(w, stateMask, hash)
        w1 == lk.w
        opened == [w1 EXCEPT !.exists = TRUE]
        fileSize == Len(opened.file)
        blobSize == SumTo(data.sizes, CpuMaxNum)
        header == [ instanceHash |-> hash, stateHash |-> stateMask, sizes |-> data.sizes,
                    blobSize |-> blobSize, ommIndexFormat |-> Uint16(ommIndexFormat) ]
        record == MakeHeader(header) \o Concat(data.data, CpuMaxNum)
        identifier == CalculateIdentifier(stateMask, hash)
    IN  IF AlreadyCached(lk.ret) THEN Done(lk, w1, "none", FALSE, lk.removed)
        ELSE IF fault = "open" THEN Done(lk, [w1 EXCEPT !.index = EmptyIndex], "open", FALSE, lk.removed)
        ELSE IF blobSize = 0 THEN Done(lk, opened, "none", FALSE, lk.removed)
        ELSE IF fault = "header" THEN Done(lk, WriteChunkFailed(opened), "header", FALSE, TRUE)
        ELSE IF fault = "blob" THEN Done(lk, WriteChunkFailed(opened), "blob", FALSE, TRUE)
        ELSE Done(lk,
                  [ exists |-> TRUE,
                    file |-> AppendRecord(opened.file, record),
                    index |-> Insert(opened.index, identifier, SavedOffset(fileSize, Len(record))) ],
                  "none", TRUE, lk.removed)


(***************************************************************************)
(* Part 4.  The cache machine: one call of the OmmCaching interface a step *)
(***************************************************************************)

Faults == { "none", "open", "header", "blob" }
\* what a second fclose of a closed FILE* does: nothing visible, or the
\* process dies
UbOutcomes == { "benign", "crash" }

NoOp ==
    [ op |-> "None", cfg |-> 0, job |-> 0, req |-> 0,
      fault |-> "none", ret |-> FALSE, out |-> NoOutput,
      existedBefore |-> FALSE, sizeBefore |-> 0, removed |-> FALSE, appended |-> FALSE,
      followsTruncate |-> FALSE, prev |-> "other", doubleClose |-> FALSE ]

\* the call under way, with what held when it was made
Call(op, c, j) ==
    [ NoOp EXCEPT !.op = op, !.cfg = c, !.job = j,
                  !.existedBefore = fileExists, !.sizeBefore = Len(file),
                  !.followsTruncate = (lastOp.op = "Truncate") ]

\* stored, as a set of <<cfg, job>>, after the step
StoredAfter(removed, added) == (IF removed THEN {} ELSE stored) \cup added

\* the offsets at which the records of an intact file start, and its end
RECURSIVE RecordBoundaries(_, _)
RecordBoundaries(f, pos) ==
    IF pos + HeaderSize > Len(f) THEN { pos }
    ELSE { pos } \cup RecordBoundaries(f, pos + HeaderSize + ParseHeader(Cells(f, pos, HeaderSize)).blobSize)

InitCache ==
    /\ fileExists = FALSE
    /\ file = <<>>
    /\ index = EmptyIndex
    /\ crashed = FALSE
    /\ truncated = FALSE
    /\ everAppended = FALSE
    /\ stored = {}
    /\ lastOp = NoOp

schedIdle ==
    /\ geometries = <<>>
    /\ outputMaxSizes = [y \in Types |-> 0]
    /\ batchSize = 0
    /\ i = 0
    /\ batches = <<>>
    /\ accumulation = [y \in Types |-> 0]
    /\ pc = "idle"

Init == InitCache /\ schedIdle /\ runIdle /\ calcIdle

\* OmmCaching::LookForCache(filename, stateMask, hash)
Lookup(c, j, ub) ==
    /\ ~crashed
    /\ \E r \in { LookForCache(World, StateHash[c], InstanceHash[j]) },
          crash \in BOOLEAN :
           /\ crash = (r.doubleClose /\ ub = "crash")
           /\ ub = "crash" => r.doubleClose
           /\ fileExists' = r.w.exists
           /\ file' = r.w.file
           /\ index' = IF crash THEN EmptyIndex ELSE r.w.index
           /\ crashed' = crash
           /\ truncated' = (truncated /\ r.w.exists)
           /\ stored' = StoredAfter(r.removed, {})
           /\ lastOp' = [Call("Lookup", c, j) EXCEPT !.ret = r.ret /\ ~crash, !.removed = r.removed,
                             !.doubleClose = r.doubleClose]
    /\ UNCHANGED everAppended
    /\ UNCHANGED schedVars
    /\ UNCHANGED runVars
    /\ UNCHANGED calc

\* OmmCaching::ReadMaskFromCache(filename, data, stateMask, hash, ommIndexFormat)
Read(c, j, q, ub) ==
    /\ ~crashed
    /\ \E r \in { ReadMaskFromCache(World, ReadRequests[q], StateHash[c], InstanceHash[j]) },
          crash \in BOOLEAN :
           /\ crash = ((r.doubleClose \/ r.outOfBounds) /\ ub = "crash")
           /\ ub = "crash" => (r.doubleClose \/ r.outOfBounds)
           /\ fileExists' = r.w.exists
           /\ file' = r.w.file
           /\ index' = IF crash THEN EmptyIndex ELSE r.w.index
           /\ crashed' = crash
           /\ truncated' = (truncated /\ r.w.exists)
           /\ stored' = StoredAfter(r.removed, {})
           /\ lastOp' = [Call("Read", c, j) EXCEPT !.req = q, !.ret = r.ret /\ ~crash,
                             !.out = IF crash THEN NoOutput ELSE r.out, !.removed = r.removed,
                             !.doubleClose = r.doubleClose]
    /\ UNCHANGED everAppended
    /\ UNCHANGED schedVars
    /\ UNCHANGED runVars
    /\ UNCHANGED calc

\* OmmCaching::SaveMasksToDisc(filename, data, stateMask, hash, ommIndexFormat)
Save(c, j, fault, ub) ==
    /\ ~crashed
    /\ \E r \in { SaveMasksToDisc(World, BakedMasks[c][j], StateHash[c], InstanceHash[j],
                                   BakedMasks[c][j].ommIndexFormat, fault) },
          crash \in BOOLEAN :
       \* a crash in the lookup's second fclose: the file is removed, nothing written
       \E done \in { IF crash THEN Done(r, Invalidated, "none", FALSE, TRUE) ELSE r },
          same \in BOOLEAN :
           /\ crash = (r.doubleClose /\ ub = "crash")
           /\ ub = "crash" => r.doubleClose
           /\ same = ( /\ lastOp.op = "Save" /\ lastOp.cfg = c /\ lastOp.job = j
                       /\ lastOp.fault = "none" /\ done.fault = "none" /\ ~crash )
           /\ fault # "none" => done.fault = fault
           /\ Len(done.w.file) <= MaxFileCells
           /\ fileExists' = done.w.exists
           /\ file' = done.w.file
           /\ index' = IF crash THEN EmptyIndex ELSE done.w.index
           /\ crashed' = crash
           /\ truncated' = (truncated /\ ~done.removed)
           /\ stored' = StoredAfter(done.removed, IF done.appended THEN { <<c, j>> } ELSE {})
           /\ everAppended' = (everAppended \/ done.appended)
           /\ lastOp' = [Call("Save", c, j) EXCEPT !.fault = done.fault,
                             !.removed = done.removed, !.appended = done.appended,
                             !.prev = IF same /\ lastOp.appended THEN "appended"
                                      ELSE IF same THEN "same" ELSE "other",
                             !.doubleClose = r.doubleClose]
    /\ UNCHANGED schedVars
    /\ UNCHANGED runVars
    /\ UNCHANGED calc

\* the process ends and a new one starts: the static index starts empty
Restart ==
    /\ crashed \/ DOMAIN index # {}
    /\ index' = EmptyIndex
    /\ crashed' = FALSE
    /\ lastOp' = [NoOp EXCEPT !.op = "Restart"]
    /\ UNCHANGED <<fileExists, file, truncated, everAppended, stored>>
    /\ UNCHANGED schedVars
    /\ UNCHANGED runVars
    /\ UNCHANGED calc

\* from outside the program: an intact file is cut in the middle of a record
Truncate(p) ==
    /\ fileExists
    /\ ~truncated
    /\ p \in 1 .. Len(file) - 1
    /\ p \notin RecordBoundaries(file, 0)
    /\ file' = SubSeq(file, 1, p)
    /\ truncated' = TRUE
    /\ lastOp' = [NoOp EXCEPT !.op = "Truncate"]
    /\ UNCHANGED <<fileExists, index, crashed, everAppended, stored>>
    /\ UNCHANGED schedVars
    /\ UNCHANGED runVars
    /\ UNCHANGED calc

Next ==
    \/ \E c \in Configs, j \in Jobs, ub \in UbOutcomes : Lookup(c, j, ub)
    \/ \E c \in Configs, j \in Jobs, q \in Reqs, ub \in UbOutcomes : Read(c, j, q, ub)
    \/ \E c \in Configs, j \in Jobs, fault \in Faults, ub \in UbOutcomes : Save(c, j, fault, ub)
    \/ Restart
    \/ \E p \in 1 .. MaxFileCells : Truncate(p)

Spec == Init /\ [][Next]_vars


(***************************************************************************)
(* Part 5.  Properties of the cache machine                                *)
(***************************************************************************)

IsPrefix(a, b) == Len(a) <= Len(b) /\ SubSeq(b, 1, Len(a)) = a

\* the file is a whole number of records (a zero-length file holds none)
Intact(f) == Len(f) \in RecordBoundaries(f, 0)

\* the headers of the records of a file, in file order
RECURSIVE RecordHeaders(_, _)
RecordHeaders(f, pos) ==
    IF pos + HeaderSize > Len(f) THEN <<>>
    ELSE LET h == ParseHeader(Cells(f, pos, HeaderSize))
         IN  << h >> \o RecordHeaders(f, pos + HeaderSize + h.blobSize)

\* how many records of the file carry this identifier / this pair of hashes
RecordsWithIdentifier(f, identifier) ==
    LET hs == RecordHeaders(f, 0)
    IN  Cardinality({ k \in 1 .. Len(hs) :
                        CalculateIdentifier(hs[k].stateHash, hs[k].instanceHash) = identifier })
RecordsWithKey(f, stateMask, hash) ==
    LET hs == RecordHeaders(f, 0)
    IN  Cardinality({ k \in 1 .. Len(hs) : hs[k].stateHash = stateMask /\ hs[k].instanceHash = hash })

AllSegments == Len(ReadRequests)
CacheOps == { "Lookup", "Read", "Save" }
BlobSize(c, j) == SumTo(BakedMasks[c][j].sizes, CpuMaxNum)

\* C4: a record with non-empty segments that SaveMasksToDisc appended under a
\* key, in a file that was neither removed since nor cut from outside, is read
\* back by ReadMaskFromCache with every destination supplied: the call returns
\* true and yields the sizes, the bytes of every segment and the index-format
\* tag as written, whatever other records the file holds.
C4_RoundTrip ==
    ( /\ lastOp.op = "Read"
      /\ lastOp.req = AllSegments
      /\ << lastOp.cfg, lastOp.job >> \in stored
      /\ ~truncated
      /\ ~crashed )
    => /\ lastOp.ret
       /\ lastOp.out.sizes = BakedMasks[lastOp.cfg][lastOp.job].sizes
       /\ lastOp.out.data = BakedMasks[lastOp.cfg][lastOp.job].data
       /\ lastOp.out.ommIndexFormat = BakedMasks[lastOp.cfg][lastOp.job].ommIndexFormat

\* C4 witness: the record read back is the second of two in the file.
C4_Witness ==
    /\ lastOp.op = "Read"
    /\ lastOp.req = AllSegments
    /\ lastOp.ret
    /\ << lastOp.cfg, lastOp.job >> \in stored
    /\ Cardinality(stored) = 2
    /\ index[CacheKey(lastOp.cfg, lastOp.job)] > 0
    /\ lastOp.out.data = BakedMasks[lastOp.cfg][lastOp.job].data

C6_MissPurity ==
    (lastOp.op = "Lookup" /\ ~everAppended) =>
        /\ ~lastOp.ret
        /\ fileExists = lastOp.existedBefore
        /\ Len(file) = lastOp.sizeBefore
        /\ ~crashed

\* C7 as stated: the first LookForCache or ReadMaskFromCache after a valid
\* file was cut inside a record reports not-found, leaves no file and an empty
\* index, and does not crash.
C7_CorruptionRecovery ==
    (lastOp.op \in { "Lookup", "Read" } /\ lastOp.followsTruncate) =>
        /\ ~lastOp.ret
        /\ ~fileExists
        /\ DOMAIN index = {}
        /\ ~crashed

C9_KeySensitivity ==
    (lastOp.op \in { "Lookup", "Read" } /\ lastOp.ret /\ ~truncated) =>
        << lastOp.cfg, lastOp.job >> \in stored

\* C10: every LookForCache, ReadMaskFromCache and SaveMasksToDisc call leaves
\* the content the file had as a prefix of the content it has, or has removed
\* the whole file (after which the file, if the call created it anew, holds at
\* most the record the call appended).
C10_AppendOnly ==
    [][ lastOp'.op \in CacheOps =>
          \/ IsPrefix(file, file') /\ (fileExists => fileExists')
          \/ /\ lastOp'.removed
             /\ \/ ~fileExists' /\ file' = <<>>
                \/ Len(file') = (IF lastOp'.appended
                                 THEN HeaderSize + BlobSize(lastOp'.cfg, lastOp'.job) ELSE 0) ]_vars

\* C10 witness: a record was appended behind the content the file had.
C10_Witness ==
    /\ lastOp.op = "Save"
    /\ lastOp.appended
    /\ ~lastOp.removed
    /\ lastOp.sizeBefore > 0
    /\ Len(file) > lastOp.sizeBefore


\* the record of file f that starts at offset pos is whole, and its header's
\* pair of hashes maps to identifier
CompleteRecordAt(f, pos, identifier) ==
    /\ pos \in RecordBoundaries(f, 0)
    /\ pos + HeaderSize <= Len(f)
    /\ pos + HeaderSize + ParseHeader(Cells(f, pos, HeaderSize)).blobSize <= Len(f)
    /\ CalculateIdentifier(ParseHeader(Cells(f, pos, HeaderSize)).stateHash,
                           ParseHeader(Cells(f, pos, HeaderSize)).instanceHash) = identifier

\* C21: after any sequence of LookForCache, ReadMaskFromCache and
\* SaveMasksToDisc calls, failed ones and restarts of the process included,
\* on a file nobody cut from outside, every entry of the index gives the
\* offset of a whole record of the existing file whose header's pair of
\* hashes maps to the entry's key.
C21_IndexConsistent ==
    (~crashed /\ ~truncated) =>
        \A identifier \in DOMAIN index :
            fileExists /\ CompleteRecordAt(file, index[identifier], identifier)

\* C21 witness: a write has just appended a second record, and the index
\* holds two entries, one of them at an offset past the first record.
C21_Witness ==
    /\ ~crashed /\ ~truncated
    /\ Cardinality(DOMAIN index) = 2
    /\ \E identifier \in DOMAIN index : index[identifier] > 0
    /\ lastOp.op = "Save" /\ lastOp.appended
    /\ Cardinality(stored) = 2


\* C27 as stated: no call of LookForCache, ReadMaskFromCache or
\* SaveMasksToDisc closes a file handle twice, the calls whose prewarm scan
\* finds a truncated file included.
C27_ClosedOnce ==
    lastOp.op \in CacheOps => ~lastOp.doubleClose

(***************************************************************************)
(* Part 6.  The bake runs: the settings panel, RebuildOmmGeometry[Async]   *)
(* and OmmGeometryUpdate (OmmSample.hpp:2023-2160, 2375-2409)              *)
(*                                                                         *)
(* A run is the execution of OmmGeometryUpdate by one thread: the UI       *)
(* thread (RebuildOmmGeometry) or the thread std::async creates            *)
(* (RebuildOmmGeometryAsync).  The runs share the cache of Part 3.         *)
(***************************************************************************)

\* ---- bounds of the run machine: the width of frameId (a uint32_t in the
\* code), the runs a behaviour starts
FrameBits == 3
MaxRuns == 2

FrameWrap(x) == x % (2 ^ FrameBits)

\* the frames in flight (NRIFramework.h; used at OmmSample.hpp:2137)
BUFFERED_FRAME_MAX_NUM == 3

\* m_OmmAlphaGeometry: (meshIndex, materialIndex) of the alpha-tested instances
m_OmmAlphaGeometry ==
    << [meshIndex |-> 4, materialIndex |-> 0],
       [meshIndex |-> 0, materialIndex |-> 1],
       [meshIndex |-> 1, materialIndex |-> 2] >>
RunJobs == 1 .. Len(m_OmmAlphaGeometry)

\* line 811, set by the command line (line 580)
m_DisableOmmBlasBuild == FALSE

\* m_OmmBakeDesc as the panel sets it: the baker type and the cache switch
PanelBakeDesc(type, enableCache) ==
    [ f \in DOMAIN DefaultBakeDesc \cup { "enableCache" } |->
        IF f = "enableCache" THEN enableCache
        ELSE IF f = "type" THEN type ELSE DefaultBakeDesc[f] ]

BakerTypes == { GPU, CPU }

\* CalculateSateHash(m_OmmBakeDesc) (lines 1878, 1909, 2033), by baker type
RunStateMask == [t \in BakerTypes |-> CalculateSateHash(PanelBakeDesc(t, TRUE))]

\* GetInstanceHash(geometry.meshIndex, geometry.materialIndex) (lines 1884, 1915, 2038)
RunInstanceHash ==
    [j \in RunJobs |-> GetInstanceHash(m_OmmAlphaGeometry[j].meshIndex,
                                      m_OmmAlphaGeometry[j].materialIndex)]

\* ---- what a bake leaves in bakeDesc.outData of a job
\* "ok": five non-empty segments; "degenerate": the array data and the
\* descriptors are empty; "none": the baker reported no array data and nothing
\* was copied (OmmHelper.cpp:290); "tooBig": WORKLOAD_TOO_BIG, the call returns
\* (OmmHelper.cpp:269-273); "fail": any other failure, std::abort()
\* (OmmHelper.cpp:275-279, 284-288)
GpuOutcomes == { "ok", "degenerate" }
CpuOutcomes == { "ok", "degenerate", "none", "tooBig", "fail" }
BakeOutcomes(type) == IF type = GPU THEN GpuOutcomes ELSE CpuOutcomes

BakerOutput(type, j, outcome) ==
    LET b == 10 * j + 50 * type
    IN  IF outcome = "ok"
        THEN MaskData(<< <<b + 1>>, <<b + 2>>, <<b + 3>>, <<b + 4>>, <<b + 5>> >>,
                      IF type = GPU THEN R32_UINT ELSE R16_UINT)
        ELSE IF outcome = "degenerate"
        THEN MaskData(<< <<>>, <<>>, <<b + 3>>, <<b + 4>>, <<b + 5>> >>,
                      IF type = GPU THEN R32_UINT ELSE R16_UINT)
        ELSE NoMasks

\* geometry.bakeDesc = {} (line 2167)
NoOutData == [j \in RunJobs |-> NoMasks]

\* ---- GetGpuBakerBatches as a function (lines 1680-1723): the loop of Part 1
\* on arguments instead of the variables
RECURSIVE GetGpuBakerBatchesLoop(_, _, _, _, _, _)
GetGpuBakerBatchesLoop(geoms, maxSizes, batchMaxSize, k, bs, acc) ==
    IF k >= Len(geoms) THEN bs
    ELSE LET nextSizes == [y \in Types |-> acc[y] + geoms[k + 1][y]]
             isAnyOverLimit == \E y \in Types : nextSizes[y] > maxSizes[y]
             counted == [bs EXCEPT ![Len(bs)].count = @ + 1]
         IN  IF isAnyOverLimit
             THEN GetGpuBakerBatchesLoop(geoms, maxSizes, batchMaxSize, k + 1,
                      Append(bs, [offset |-> k, count |-> 1]),
                      [y \in Types |-> geoms[k + 1][y]])
             ELSE IF counted[Len(bs)].count >= batchMaxSize /\ k + 1 < Len(geoms)
             THEN GetGpuBakerBatchesLoop(geoms, maxSizes, batchMaxSize, k + 1,
                      Append(counted, [offset |-> k + 1, count |-> 0]),
                      [y \in Types |-> 0])
             ELSE GetGpuBakerBatchesLoop(geoms, maxSizes, batchMaxSize, k + 1, counted, nextSizes)

GetGpuBakerBatches(geoms, maxSizes, cap) ==
    GetGpuBakerBatchesLoop(geoms, maxSizes, IF cap > Len(geoms) THEN Len(geoms) ELSE cap,
                           0, << [offset |-> 0, count |-> 0] >>, [y \in Types |-> 0])

\* lines 2027-2028: memoryStats = {} and a cap of 1; no prebuild info has been
\* computed yet (bakeDesc was reset at line 2167), so every size is zero
UnitBatches ==
    GetGpuBakerBatches([j \in RunJobs |-> [y \in Types |-> 0]], [y \in Types |-> 0], 1)

\* lines 2060-2061: batches.push_back({ 0, m_OmmAlphaGeometry.size() })
WholeBatch == << [offset |-> 0, count |-> Len(m_OmmAlphaGeometry)] >>

\* the job ids (1-based) of a batch, in order
BatchJobs(batch) == [k \in 1 .. batch.count |-> batch.offset + k]
SeqToSet(q) == { q[k] : k \in 1 .. Len(q) }

\* the element of a one-element set: { F(r) : r \in { e } } computes e once,
\* where F uses it many times
TheOne(S) == CHOOSE x \in S : TRUE

\* ---- lines 2035-2042: the probe of the GPU baker; LookForCache is called
\* for every instance, whatever enableCache says
RECURSIVE ProbeCache(_, _, _, _, _)
ProbeCache(w, bakeDesc, instanceId, queue, closedTwice) ==
    IF instanceId > Len(m_OmmAlphaGeometry)
    THEN [w |-> w, queue |-> queue, doubleClose |-> closedTwice]
    ELSE TheOne({ ProbeCache(r.w, bakeDesc, instanceId + 1,
                      IF r.ret /\ bakeDesc.enableCache THEN queue ELSE Append(queue, instanceId),
                      closedTwice \/ r.doubleClose) :
                  r \in { LookForCache(w, RunStateMask[bakeDesc.type],
                                       RunInstanceHash[instanceId]) } })

\* lines 1919-1924: outData resized to the sizes of the first read and filled
\* by the second
CachedMasks(first, second) ==
    [ sizes |-> first.out.sizes,
      data |-> IF second.ret THEN second.out.data
               ELSE [k \in Segments |-> [n \in 1 .. first.out.sizes[k] |-> 0]],
      ommIndexFormat |-> IF second.ret THEN second.out.ommIndexFormat ELSE 0 ]

\* lines 1899-1932, from the k-th job of the batch on
RECURSIVE InitializeOmmGeometryFromCache(_, _, _, _, _, _, _)
InitializeOmmGeometryFromCache(w, bakeDesc, jobs, k, outData, outBakeQueue, ub) ==
    IF k > Len(jobs)
    THEN [w |-> w, outData |-> outData, bakeQueue |-> outBakeQueue, ub |-> ub]
    ELSE IF ~bakeDesc.enableCache
    THEN InitializeOmmGeometryFromCache(w, bakeDesc, jobs, k + 1, outData,
                                        Append(outBakeQueue, jobs[k]), ub)
    ELSE TheOne({ IF ~first.ret
                  THEN InitializeOmmGeometryFromCache(first.w, bakeDesc, jobs, k + 1, outData,
                           Append(outBakeQueue, jobs[k]), ub \/ first.doubleClose)
                  ELSE TheOne({ InitializeOmmGeometryFromCache(second.w, bakeDesc, jobs, k + 1,
                                    [outData EXCEPT ![jobs[k]] = CachedMasks(first, second)],
                                    outBakeQueue,
                                    ub \/ first.doubleClose \/ first.outOfBounds
                                       \/ second.doubleClose \/ second.outOfBounds) :
                                second \in { ReadMaskFromCache(first.w, ReadRequests[2],
                                                 RunStateMask[bakeDesc.type],
                                                 RunInstanceHash[jobs[k]]) } }) :
                  first \in { ReadMaskFromCache(w, ReadRequests[1], RunStateMask[bakeDesc.type],
                                                RunInstanceHash[jobs[k]]) } })

\* lines 1886-1893: isDataValid &= data.sizes[i] > 0
IsDataValidAlways(data) == TRUE
IsDataValid(data) == \A k \in Segments : data.sizes[k] > 0

\* a persistence step that gives up at the first failed write
RECURSIVE SaveMaskCacheStopping(_, _, _, _, _, _, _)
SaveMaskCacheStopping(w, bakeDesc, jobs, k, outData, faults, acc) ==
    IF k > Len(jobs) \/ acc.failed # <<>> THEN [acc EXCEPT !.w = w]
    ELSE IF ~IsDataValid(outData[jobs[k]])
    THEN SaveMaskCacheStopping(w, bakeDesc, jobs, k + 1, outData, faults, acc)
    ELSE TheOne({ SaveMaskCacheStopping(r.w, bakeDesc, jobs, k + 1, outData, faults,
                      [ w |-> r.w,
                        saved |-> acc.saved \cup { jobs[k] },
                        appended |-> IF r.appended THEN acc.appended \cup { jobs[k] }
                                     ELSE acc.appended,
                        failed |-> IF r.fault # "none" THEN Append(acc.failed, jobs[k])
                                   ELSE acc.failed,
                        afterFailure |-> acc.afterFailure,
                        doubleClose |-> acc.doubleClose \/ r.doubleClose ]) :
                  r \in { SaveMasksToDisc(w, outData[jobs[k]], RunStateMask[bakeDesc.type],
                                          RunInstanceHash[jobs[k]],
                                          outData[jobs[k]].ommIndexFormat, faults[jobs[k]]) } })

\* lines 1874-1897, from the k-th job of the batch on.  saved: the jobs
\* SaveMasksToDisc was called for; appended: those it wrote a record for;
\* failed: those whose write failed
RECURSIVE SaveMaskCache(_, _, _, _, _, _, _)
SaveMaskCache(w, bakeDesc, jobs, k, outData, faults, acc) ==
    IF k > Len(jobs) THEN [acc EXCEPT !.w = w]
    ELSE IF ~IsDataValid(outData[jobs[k]])
    THEN SaveMaskCache(w, bakeDesc, jobs, k + 1, outData, faults, acc)
    ELSE TheOne({ SaveMaskCache(r.w, bakeDesc, jobs, k + 1, outData, faults,
                      [ w |-> r.w,
                        saved |-> acc.saved \cup { jobs[k] },
                        appended |-> IF r.appended THEN acc.appended \cup { jobs[k] }
                                     ELSE acc.appended,
                        failed |-> IF r.fault # "none" THEN Append(acc.failed, jobs[k])
                                   ELSE acc.failed,
                        afterFailure |-> IF r.appended /\ acc.failed # <<>>
                                         THEN acc.afterFailure \cup { jobs[k] }
                                         ELSE acc.afterFailure,
                        doubleClose |-> acc.doubleClose \/ r.doubleClose ]) :
                  r \in { SaveMasksToDisc(w, outData[jobs[k]], RunStateMask[bakeDesc.type],
                                          RunInstanceHash[jobs[k]],
                                          outData[jobs[k]].ommIndexFormat, faults[jobs[k]]) } })

NothingSaved ==
    [ w |-> Invalidated, saved |-> {}, appended |-> {}, failed |-> <<>>, afterFailure |-> {},
      doubleClose |-> FALSE ]

(***************************************************************************)
(* Part 7.  The run machine                                                *)
(*                                                                         *)
(* ui.pc    "frame": between two calls of AppendOmmImguiSettings;          *)
(*          "inrun": inside RebuildOmmGeometry, called from the panel.     *)
(* ui.task  asyncUpdateTask: "none" (no shared state), "running", "ready". *)
(* run.pc   the statement the running thread is at: "idle", "start" and    *)
(*          "wait" (RebuildOmmGeometryAsync), "release" and "clear"        *)
(*          (ReleaseMaskedGeometry), "plan", then per                      *)
(*          batch "lookup", "bake", "save", "build", "free", and "cleanup";*)
(*          "aborted" after std::abort().                                  *)
(* A frame drawn with the panel collapsed changes nothing (line 2260) and  *)
(* is a stuttering step.                                                   *)
(***************************************************************************)

\* ---- bound: the bake outcomes other than "ok" and the failing writes of a
\* behaviour
MaxDeviations == 1

\* ommBuildPostponeFrameId's default (line 572)
buildFrameId == 0

IdleRun ==
    [ pc |-> "idle", async |-> FALSE, bakeDesc |-> [type |-> GPU, enableCache |-> FALSE],
      fistFrame |-> 0, endFrame |-> 0, batches |-> <<>>, batchId |-> 0,
      bakeQueue |-> <<>>, probeQueue |-> <<>>, outData |-> NoOutData,
      m_OmmUpdateProgress |-> 0 ]

NoBatchHistory ==
    [ missed |-> {}, hits |-> {}, handed |-> <<>>, recsBefore |-> 0, inputs |-> <<>>,
      saveCalled |-> FALSE, existedBefore |-> FALSE, faults |-> <<>>,
      saved |-> {}, appended |-> {}, failed |-> <<>>, afterFailure |-> {} ]

\* the cache file a process may find: a record of the second job under the GPU
\* configuration, whole or cut inside its blob, or no file at all
JobTwoRecord ==
    MakeHeader([ instanceHash |-> RunInstanceHash[2], stateHash |-> RunStateMask[GPU],
                 sizes |-> BakerOutput(GPU, 2, "ok").sizes, blobSize |-> CpuMaxNum,
                 ommIndexFormat |-> R32_UINT ])
        \o Concat(BakerOutput(GPU, 2, "ok").data, CpuMaxNum)
InitialFiles == { JobTwoRecord, SubSeq(JobTwoRecord, 1, HeaderSize + 2), <<>> }

InitRunFrom(files) ==
    /\ \E f \in files :
          /\ file = f
          /\ truncated = (f = SubSeq(JobTwoRecord, 1, HeaderSize + 2))
          /\ fileExists = (f # <<>>)
    /\ index = EmptyIndex
    /\ crashed = FALSE
    /\ everAppended = FALSE
    /\ stored = {}
    /\ lastOp = NoOp
    /\ schedIdle
    /\ ui = [pc |-> "frame", frameId |-> 0, task |-> "none"]
    /\ run = IdleRun
    /\ gpu = [ m_MaskedBlasses |-> {}, table |-> {}, destroyed |-> {},
               bakerBuffers |-> FALSE, uploadBuffers |-> {} ]
    /\ hist = [ runs |-> 0, inFlight |-> 0, deviations |-> 0, request |-> "none",
                waited |-> 0, built |-> FALSE, batch |-> NoBatchHistory ]

InitRun == InitRunFrom(InitialFiles) /\ calcIdle

Alive == ~crashed /\ run.pc # "aborted"

\* the cache variables after a step of a run that left the world at w
CacheBecomes(w, crash) ==
    /\ fileExists' = (IF crash THEN FALSE ELSE w.exists)
    /\ file' = (IF crash THEN <<>> ELSE w.file)
    /\ index' = (IF crash THEN EmptyIndex ELSE w.index)
    /\ crashed' = crash
    /\ UNCHANGED <<truncated, everAppended, stored, lastOp>>

\* lines 1146-1152: the BLAS of the instance in the table, or nullptr
NoBlas == <<0, 0>>
GetMaskedBlas(table, j) ==
    IF \E t \in table : t[2] = j THEN CHOOSE t \in table : t[2] = j ELSE NoBlas

\* the render path asks for the masked BLAS of every instance it draws
RenderLookups(table) == { GetMaskedBlas(table, j) : j \in RunJobs } \ { NoBlas }

\* lines 2375-2378: the future is valid and not ready
NeverActive(task) == FALSE
IsAsyncActive(task) == task = "running"

\* line 2395
LaunchAsyncTask(type, enableAsync) == (enableAsync /\ type # CPU) \/ type = CPU

\* one frame of the panel, unfolded (lines 2375-2409).  press: the button;
\* type, enableCache, enableAsync: the settings of the panel at that time.
UiFrame(press, type, enableCache, enableAsync) ==
    /\ Alive
    /\ ui.pc = "frame"
    /\ \E isAsyncActive \in { IsAsyncActive(ui.task) },
          forceRebuild \in { ui.frameId = buildFrameId } :
       \E start \in { (press \/ forceRebuild) /\ ~isAsyncActive } :
          /\ start => hist.runs < MaxRuns
          /\ ~start => (type = GPU /\ ~enableCache /\ ~enableAsync)
          /\ IF start /\ LaunchAsyncTask(type, enableAsync)
             THEN /\ ui' = [ui EXCEPT !.task = "running", !.frameId = FrameWrap(@ + 1)]
                  /\ run' = [IdleRun EXCEPT !.pc = "start", !.async = TRUE,
                                            !.bakeDesc = [type |-> type, enableCache |-> enableCache]]
             ELSE IF start
             THEN /\ ui' = [ui EXCEPT !.pc = "inrun"]
                  /\ run' = [IdleRun EXCEPT !.pc = "release",
                                            !.bakeDesc = [type |-> type, enableCache |-> enableCache]]
             ELSE /\ ui' = [ui EXCEPT !.frameId = FrameWrap(@ + 1)]
                  /\ run' = run
          /\ hist' = [hist EXCEPT
                        !.runs = IF start THEN @ + 1 ELSE @,
                        !.inFlight = IF start THEN @ + 1 ELSE @,
                        !.built = IF start THEN FALSE ELSE @,
                        !.waited = IF start THEN 0
                                   ELSE IF run.pc = "wait" /\ @ < BUFFERED_FRAME_MAX_NUM THEN @ + 1
                                   ELSE @,
                        !.batch = IF start THEN NoBatchHistory ELSE @,
                        !.request = IF start THEN "started"
                                    ELSE IF press \/ forceRebuild THEN "rejected" ELSE "none"]
    /\ UNCHANGED gpu
    /\ UNCHANGED cacheVars
    /\ UNCHANGED schedVars
    /\ UNCHANGED calc

\* line 2138: m_InstanceMaskToMaskedBlasData.clear()
KeptTable(table) == table
ClearedTable(table) == {}

\* lines 2136-2138: the frame is read, the end of the wait computed in
\* uint32_t, the lookup table cleared
AsyncStart ==
    /\ Alive
    /\ run.pc = "start"
    /\ run' = [run EXCEPT !.pc = "wait", !.fistFrame = ui.frameId,
                          !.endFrame = FrameWrap(ui.frameId + BUFFERED_FRAME_MAX_NUM)]
    /\ gpu' = [gpu EXCEPT !.table = ClearedTable(@)]
    /\ hist' = [hist EXCEPT !.waited = 0]
    /\ UNCHANGED ui
    /\ UNCHANGED cacheVars
    /\ UNCHANGED schedVars
    /\ UNCHANGED calc

\* lines 2140-2143: while (*frameId < endFrame) Sleep(1); then OmmGeometryUpdate.
\* The two locals are not read again.
AsyncWait ==
    /\ Alive
    /\ run.pc = "wait"
    /\ ~(ui.frameId < run.endFrame)
    /\ run' = [run EXCEPT !.pc = "release", !.fistFrame = 0, !.endFrame = 0]
    /\ UNCHANGED <<ui, gpu, hist>>
    /\ UNCHANGED cacheVars
    /\ UNCHANGED schedVars
    /\ UNCHANGED calc

\* lines 2154-2155: DestroyMaskedGeometry for every entry of m_MaskedBlasses
DestroysNothing(blasses) == {}
DestroyedByRelease(blasses) == blasses

\* line 2025: ReleaseMaskedGeometry(), its loop (lines 2154-2155).  The list
\* m_MaskedBlasses, which only the running thread reads, is cleared at line
\* 2158.
ReleaseMaskedGeometry ==
    /\ Alive
    /\ run.pc = "release"
    /\ gpu' = [gpu EXCEPT !.destroyed = @ \cup DestroyedByRelease(gpu.m_MaskedBlasses),
                          !.m_MaskedBlasses = @ \ DestroyedByRelease(@)]
    /\ run' = [run EXCEPT !.pc = "clear"]
    /\ UNCHANGED <<ui, hist>>
    /\ UNCHANGED cacheVars
    /\ UNCHANGED schedVars
    /\ UNCHANGED calc

\* line 2157: the table is cleared after the loop over m_MaskedBlasses
ReleaseMaskedGeometryClear ==
    /\ Alive
    /\ run.pc = "clear"
    /\ gpu' = [gpu EXCEPT !.table = {}]
    /\ run' = [run EXCEPT !.pc = "plan"]
    /\ UNCHANGED <<ui, hist>>
    /\ UNCHANGED cacheVars
    /\ UNCHANGED schedVars
    /\ UNCHANGED calc

\* lines 2026-2064: the batch list, and for the GPU baker the probe of the
\* cache, the baker's buffers and, in a synchronous run, the single batch
PlanBatches(ub) ==
    /\ Alive
    /\ run.pc = "plan"
    /\ \E r \in { IF run.bakeDesc.type = GPU
                  THEN ProbeCache(World, run.bakeDesc, 1, <<>>, FALSE)
                  ELSE [w |-> World, queue |-> <<>>, doubleClose |-> FALSE] },
          crash \in BOOLEAN :
          /\ crash = (r.doubleClose /\ ub = "crash")
          /\ ub = "crash" => r.doubleClose
          /\ CacheBecomes(r.w, crash)
          /\ run' = [run EXCEPT !.pc = "lookup",
                                !.probeQueue = r.queue,
                                !.batches = IF r.queue # <<>> /\ ~run.async
                                            THEN WholeBatch ELSE UnitBatches,
                                !.batchId = 1]
          /\ gpu' = [gpu EXCEPT !.bakerBuffers = (r.queue # <<>>)]
    /\ UNCHANGED <<ui, hist>>
    /\ UNCHANGED schedVars
    /\ UNCHANGED calc

CurrentBatch == run.batches[run.batchId]

\* line 2088
AfterBake == IF m_DisableOmmBlasBuild THEN "free" ELSE "build"

\* the records a file holds
NumRecords(f) == Len(RecordHeaders(f, 0))

\* line 2071: InitializeOmmGeometryFromCache(batch, bakeQueue)
BatchLookup(ub) ==
    /\ Alive
    /\ run.pc = "lookup"
    /\ \E r \in { InitializeOmmGeometryFromCache(World, run.bakeDesc, BatchJobs(CurrentBatch),
                                                  1, run.outData, <<>>, FALSE) },
          crash \in BOOLEAN :
          /\ crash = (r.ub /\ ub = "crash")
          /\ ub = "crash" => r.ub
          /\ CacheBecomes(r.w, crash)
          /\ run' = [run EXCEPT !.pc = IF r.bakeQueue = <<>> THEN AfterBake ELSE "bake",
                                !.bakeQueue = r.bakeQueue,
                                !.outData = r.outData]
          /\ hist' = [hist EXCEPT !.batch =
                        [NoBatchHistory EXCEPT
                            !.missed = SeqToSet(r.bakeQueue),
                            !.hits = SeqToSet(BatchJobs(CurrentBatch)) \ SeqToSet(r.bakeQueue),
                            !.recsBefore = IF crash THEN 0 ELSE NumRecords(r.w.file)]]
    /\ UNCHANGED <<ui, gpu>>
    /\ UNCHANGED schedVars
    /\ UNCHANGED calc

\* one outcome a job, at most one of them other than "ok"
OutcomeVectors(type) ==
    { o \in [RunJobs -> BakeOutcomes(type)] : Cardinality({ j \in RunJobs : o[j] # "ok" }) <= 1 }

\* BakeOpacityMicroMapsCpu's loop (OmmHelper.cpp:216-318): the jobs of the
\* queue reached before a return (WORKLOAD_TOO_BIG) or std::abort()
RECURSIVE CpuBaked(_, _, _)
CpuBaked(queue, k, outcomes) ==
    IF k > Len(queue) \/ outcomes[queue[k]] \in { "tooBig", "fail" } THEN {}
    ELSE { queue[k] } \cup CpuBaked(queue, k + 1, outcomes)

\* BakeOmmGpu's copies (lines 1966-2021): without the cache only the two
\* histograms are read back
GpuReadBack(out, enableCache) ==
    IF enableCache THEN out
    ELSE MaskData(<< <<>>, <<>>, <<>>, out.data[4], out.data[5] >>, out.ommIndexFormat)

\* line 2077 or 2079: the Baker is called once, with the whole queue
DispatchEach(bakeQueue) == [k \in 1 .. Len(bakeQueue) |-> { bakeQueue[k] }]
Dispatch(bakeQueue) == << SeqToSet(bakeQueue) >>

\* lines 2073-2080.  A GPU job the probe left out has no baker buffers
\* (lines 1836-1870 bind them for the probe's queue only): the copies of its
\* output have no defined result.
BatchBake(outcomes, ub) ==
    /\ Alive
    /\ run.pc = "bake"
    /\ \A j \in RunJobs : outcomes[j] # "ok" => j \in SeqToSet(run.bakeQueue)
    /\ (\E j \in RunJobs : outcomes[j] # "ok") => hist.deviations < MaxDeviations
    /\ \E unbound \in { run.bakeDesc.type = GPU
                          /\ ~(SeqToSet(run.bakeQueue) \subseteq SeqToSet(run.probeQueue)) },
          abort \in { run.bakeDesc.type = CPU
                          /\ \E j \in SeqToSet(run.bakeQueue) : outcomes[j] = "fail"
                          /\ \A k \in 1 .. Len(run.bakeQueue) :
                                outcomes[run.bakeQueue[k]] = "tooBig"
                                    => \E m \in 1 .. k - 1 : outcomes[run.bakeQueue[m]] = "fail" } :
          /\ ub = "crash" => unbound
          /\ crashed' = (unbound /\ ub = "crash")
          /\ run' = [run EXCEPT
                        !.pc = IF abort THEN "aborted"
                               ELSE IF run.bakeDesc.enableCache THEN "save" ELSE AfterBake,
                        !.outData =
                            [j \in RunJobs |->
                                IF run.bakeDesc.type = GPU /\ j \in SeqToSet(run.bakeQueue)
                                THEN GpuReadBack(BakerOutput(GPU, j, outcomes[j]),
                                                 run.bakeDesc.enableCache)
                                ELSE IF run.bakeDesc.type = CPU
                                        /\ j \in CpuBaked(run.bakeQueue, 1, outcomes)
                                THEN BakerOutput(CPU, j, outcomes[j])
                                ELSE run.outData[j]]]
          /\ hist' = [hist EXCEPT
                        !.deviations = IF \E j \in RunJobs : outcomes[j] # "ok" THEN @ + 1 ELSE @,
                        !.batch.handed = @ \o Dispatch(run.bakeQueue)]
    /\ UNCHANGED <<ui, gpu>>
    /\ UNCHANGED <<fileExists, file, index, truncated, everAppended, stored, lastOp>>
    /\ UNCHANGED schedVars
    /\ UNCHANGED calc

\* one fault a job, at most one of them a failure
FaultVectors ==
    { f \in [RunJobs -> Faults] : Cardinality({ j \in RunJobs : f[j] # "none" }) <= 1 }

\* lines 2082-2086: SaveMaskCache(batch)
BatchSave(faults, ub) ==
    /\ Alive
    /\ run.pc = "save"
    /\ (\E j \in RunJobs : faults[j] # "none") => hist.deviations < MaxDeviations
    /\ \E r \in { SaveMaskCache(World, run.bakeDesc, BatchJobs(CurrentBatch), 1, run.outData,
                                faults, NothingSaved) },
          crash \in BOOLEAN :
          /\ \A j \in RunJobs : faults[j] # "none" => j \in SeqToSet(r.failed)
          /\ crash = (r.doubleClose /\ ub = "crash")
          /\ ub = "crash" => r.doubleClose
          /\ CacheBecomes(r.w, crash)
          /\ run' = [run EXCEPT !.pc = AfterBake]
          /\ hist' = [hist EXCEPT
                        !.deviations = IF \E j \in RunJobs : faults[j] # "none" THEN @ + 1 ELSE @,
                        !.batch = [@ EXCEPT !.saveCalled = TRUE, !.existedBefore = fileExists,
                                            !.faults = faults,
                                            !.saved = r.saved, !.appended = r.appended,
                                            !.failed = r.failed,
                                            !.afterFailure = r.afterFailure]]
    /\ UNCHANGED <<ui, gpu>>
    /\ UNCHANGED schedVars
    /\ UNCHANGED calc

\* lines 1538-1539: a job without an index histogram is left out of the build
BuildQueue(batch, outData) ==
    { j \in SeqToSet(BatchJobs(batch)) : outData[j].sizes[CpuMaxNum] > 0 }

\* lines 1546-1565 (AreBakerOutputsOnGPU): upload buffers are created for the
\* jobs whose masks are in CPU memory, those read from the cache or baked on
\* the CPU
NeedsUpload(j) == run.bakeDesc.type = CPU \/ j \notin SeqToSet(run.bakeQueue)

\* lines 1586-1590: the raw masks are released, the histograms kept
RawReleased(out) ==
    MaskData(<< <<>>, <<>>, <<>>, out.data[4], out.data[5] >>, out.ommIndexFormat)

\* std::map::insert: a handle is added unless the job has one
InsertBlas(table, handles) ==
    table \cup { h \in handles : ~\E t \in table : t[2] = h[2] }

\* lines 2088-2115: FillOmmBlasBuildQueue, BuildMaskedGeometry, the table
BatchBuild ==
    /\ Alive
    /\ run.pc = "build"
    /\ \E queue \in { BuildQueue(CurrentBatch, run.outData) } :
          /\ gpu' = [gpu EXCEPT
                        !.uploadBuffers = @ \cup { j \in queue : NeedsUpload(j) },
                        !.m_MaskedBlasses = @ \cup { <<hist.runs, j>> : j \in queue },
                        !.table = InsertBlas(@, { <<hist.runs, j>> : j \in queue })]
          /\ run' = [run EXCEPT
                        !.pc = "free",
                        !.outData = [j \in RunJobs |->
                                        IF j \in SeqToSet(BatchJobs(CurrentBatch))
                                        THEN RawReleased(run.outData[j]) ELSE run.outData[j]]]
          /\ hist' = [hist EXCEPT !.built = TRUE,
                                  !.batch.inputs = [j \in queue |-> run.outData[j]]]
    /\ UNCHANGED ui
    /\ UNCHANGED cacheVars
    /\ UNCHANGED schedVars
    /\ UNCHANGED calc

\* lines 2117-2124: the upload buffers and their memory are freed
KeptUploadBuffers(buffers) == buffers
FreedUploadBuffers(buffers) == {}

\* line 2126: m_OmmUpdateProgress += (uint32_t)batch.count
ProgressByOne(progress, batch) == progress + 1
ProgressAfter(progress, batch) == progress + batch.count

\* line 2066: ++batchId
SkipBatch(batchId) == batchId + 2
NextBatch(batchId) == batchId + 1

\* lines 2117-2126 and the loop's step
BatchFree ==
    /\ Alive
    /\ run.pc = "free"
    /\ gpu' = [gpu EXCEPT !.uploadBuffers = FreedUploadBuffers(@)]
    /\ run' = [run EXCEPT
                  !.m_OmmUpdateProgress = ProgressAfter(@, CurrentBatch),
                  !.batchId = NextBatch(@),
                  !.pc = IF NextBatch(run.batchId) > Len(run.batches) THEN "cleanup" ELSE "lookup",
                  !.bakeQueue = <<>>]
    /\ UNCHANGED <<ui, hist>>
    /\ UNCHANGED cacheVars
    /\ UNCHANGED schedVars
    /\ UNCHANGED calc

\* lines 2130-2131: ReleaseBakingResources(), m_OmmUpdateProgress = 0; the
\* thread leaves OmmGeometryUpdate, and the panel's frame ends (line 2409)
Cleanup ==
    /\ Alive
    /\ run.pc = "cleanup"
    /\ gpu' = [gpu EXCEPT !.bakerBuffers = FALSE, !.uploadBuffers = {}]
    /\ run' = [IdleRun EXCEPT !.bakeDesc = run.bakeDesc]
    /\ ui' = IF run.async THEN [ui EXCEPT !.task = "ready"]
             ELSE [ui EXCEPT !.pc = "frame", !.frameId = FrameWrap(@ + 1)]
    /\ hist' = [hist EXCEPT !.inFlight = @ - 1, !.waited = 0]
    /\ UNCHANGED cacheVars
    /\ UNCHANGED schedVars
    /\ UNCHANGED calc

NextRun ==
    \/ \E press \in BOOLEAN, type \in BakerTypes, enableCache \in BOOLEAN, enableAsync \in BOOLEAN :
          UiFrame(press, type, enableCache, enableAsync)
    \/ AsyncStart
    \/ AsyncWait
    \/ ReleaseMaskedGeometry
    \/ ReleaseMaskedGeometryClear
    \/ \E ub \in UbOutcomes : PlanBatches(ub)
    \/ \E ub \in UbOutcomes : BatchLookup(ub)
    \/ \E outcomes \in OutcomeVectors(run.bakeDesc.type), ub \in UbOutcomes : BatchBake(outcomes, ub)
    \/ \E faults \in FaultVectors, ub \in UbOutcomes : BatchSave(faults, ub)
    \/ BatchBuild
    \/ BatchFree
    \/ Cleanup

SpecRun == InitRun /\ [][NextRun]_vars

\* The runs with the render path.  calc.blas: the runs that built the handles
\* GetMaskedBlas returned to the frame rendered last; calc.stale: whether one
\* of these handles was destroyed when it was returned.
NoLookups == [blas |-> {}, stale |-> FALSE]

InitRender == InitRunFrom({ <<>> }) /\ calc = NoLookups

\* a frame is rendered, outside RebuildOmmGeometry: the lookups of the render
\* path
RenderFrame ==
    /\ Alive
    /\ ui.pc = "frame"
    /\ calc' = [blas |-> { h[1] : h \in RenderLookups(gpu.table) },
                stale |-> RenderLookups(gpu.table) \cap gpu.destroyed # {}]
    /\ UNCHANGED runVars
    /\ UNCHANGED cacheVars
    /\ UNCHANGED schedVars

NextRender == NextRun \/ RenderFrame

SpecRender == InitRender /\ [][NextRender]_vars

\* the steps of the thread inside RebuildOmmGeometry[Async], and the frames
\* of the panel
RunStep ==
    \/ AsyncStart
    \/ AsyncWait
    \/ ReleaseMaskedGeometry
    \/ ReleaseMaskedGeometryClear
    \/ \E ub \in UbOutcomes : PlanBatches(ub)
    \/ \E ub \in UbOutcomes : BatchLookup(ub)
    \/ \E outcomes \in OutcomeVectors(run.bakeDesc.type), ub \in UbOutcomes : BatchBake(outcomes, ub)
    \/ \E faults \in FaultVectors, ub \in UbOutcomes : BatchSave(faults, ub)
    \/ BatchBuild
    \/ BatchFree
    \/ Cleanup
UiStep ==
    \E press \in BOOLEAN, type \in BakerTypes, enableCache \in BOOLEAN, enableAsync \in BOOLEAN :
        UiFrame(press, type, enableCache, enableAsync)

\* a thread that can take a step takes one (the scheduler is fair, every GPU
\* wait of SubmitQueueWorkAndWait returns), and the panel keeps being drawn
\* unfolded.  The waiting thread tests the counter every millisecond
\* (Sleep(1), line 2141), many times a frame: it does not miss the frames in
\* which the test fails to hold, however the counter wraps later on.
SpecRunFair ==
    InitRun /\ [][NextRun]_vars /\ WF_vars(RunStep) /\ SF_vars(AsyncWait) /\ WF_vars(UiStep)


(***************************************************************************)
(* Part 8.  Properties of the run machine                                  *)
(***************************************************************************)

\* the blob of the first record of the file with this pair of hashes, or <<-1>>
RECURSIVE RecordBlob(_, _, _, _)
RecordBlob(f, pos, stateMask, hash) ==
    IF pos + HeaderSize > Len(f) THEN << -1 >>
    ELSE LET h == ParseHeader(Cells(f, pos, HeaderSize))
         IN  IF h.stateHash = stateMask /\ h.instanceHash = hash
             THEN Cells(f, pos + HeaderSize, h.blobSize)
             ELSE RecordBlob(f, pos + HeaderSize + h.blobSize, stateMask, hash)

InBatch == run.pc \in { "lookup", "bake", "save", "build", "free" }
RunMask == RunStateMask[run.bakeDesc.type]

\* C11: in a run with caching enabled whose cache writes succeed, the Baker is
\* called once per batch with exactly the jobs whose cache read missed (and not
\* at all when none missed); a job that hit is built from the bytes of its
\* record; and the file gains one record per missed job whose output has no
\* empty segment.
C11_BakeExactlyMisses ==
    (run.bakeDesc.enableCache /\ ~crashed /\ hist.batch.failed = <<>>) =>
        /\ run.pc \in { "save", "build", "free" } =>
              /\ hist.batch.handed =
                    (IF hist.batch.missed = {} THEN <<>> ELSE << hist.batch.missed >>)
              /\ hist.batch.hits \cap hist.batch.missed = {}
        /\ run.pc = "build" =>
              /\ hist.batch.appended = { j \in hist.batch.missed : IsDataValid(run.outData[j]) }
              /\ NumRecords(file) = hist.batch.recsBefore + Cardinality(hist.batch.appended)
              /\ \A j \in hist.batch.appended :
                    RecordBlob(file, 0, RunMask, RunInstanceHash[j])
                        = Concat(run.outData[j].data, CpuMaxNum)
        /\ run.pc = "free" =>
              \A j \in hist.batch.hits :
                  /\ j \in DOMAIN hist.batch.inputs
                  /\ Concat(hist.batch.inputs[j].data, CpuMaxNum)
                        = RecordBlob(file, 0, RunMask, RunInstanceHash[j])

\* the worked example: three jobs in one batch, the second one cached; one
\* dispatch of two work items, two new records, the second job built from
\* its record
C11_Witness ==
    /\ run.pc = "free"
    /\ run.bakeDesc.enableCache
    /\ run.batches = WholeBatch
    /\ hist.batch.hits = { 2 }
    /\ hist.batch.handed = << { 1, 3 } >>
    /\ NumRecords(file) = hist.batch.recsBefore + 2
    /\ hist.batch.failed = <<>>
    /\ 2 \in DOMAIN hist.batch.inputs

BatchSteps == << "lookup", "bake", "save", "build", "free" >>
Rank(step) == CHOOSE k \in 1 .. Len(BatchSteps) : BatchSteps[k] = step

\* C12: within OmmGeometryUpdate the steps of a batch come in the order
\* lookup, bake, persistence, build (then the release of its buffers); the
\* first step taken is the lookup of batch 1; the lookup of batch k+1 follows
\* the last step of batch k; Cleanup follows the last step of the last batch.
C12_StepOrder ==
    [][ (run'.pc # run.pc \/ run'.batchId # run.batchId) =>
          /\ (run'.pc \in SeqToSet(BatchSteps) /\ run.pc \in SeqToSet(BatchSteps)) =>
                \/ run'.batchId = run.batchId /\ Rank(run'.pc) > Rank(run.pc)
                \/ /\ run.pc = "free"
                   /\ run'.pc = "lookup"
                   /\ run'.batchId = run.batchId + 1
                   /\ run'.batchId <= Len(run.batches)
          /\ (run'.pc \in SeqToSet(BatchSteps) /\ run.pc \notin SeqToSet(BatchSteps)) =>
                run.pc = "plan" /\ run'.pc = "lookup" /\ run'.batchId = 1
          /\ run'.pc = "cleanup" => run.pc = "free" /\ run.batchId = Len(run.batches)
          /\ run'.batches # run.batches => run.pc \notin SeqToSet(BatchSteps)
      ]_vars

\* the second of three batches is at its build after its lookup, its bake and
\* its persistence
C12_Witness ==
    /\ run.pc = "build"
    /\ run.batchId = 2
    /\ Len(run.batches) = 3
    /\ hist.batch.missed = { 2 }
    /\ hist.batch.handed = << { 2 } >>
    /\ hist.batch.saveCalled

\* C13: at most one run executes at any time; a request (button or forced
\* frame) made while the asynchronous task is unfinished starts nothing, in
\* that frame or later: a run starts only in a frame that itself carries a
\* request, and only when no run is executing.
C13_OneRunAtATime ==
    /\ [](hist.inFlight <= 1 /\ (ui.pc = "inrun" => ui.task # "running"))
    /\ [][ /\ hist'.runs > hist.runs =>
                /\ ui.task # "running"
                /\ run.pc = "idle"
                /\ hist.inFlight = 0
                /\ hist'.request = "started"
                /\ hist'.runs = hist.runs + 1
           /\ (ui.task = "running" /\ ui'.frameId # ui.frameId) =>
                /\ hist'.runs = hist.runs
                /\ run' = run
                /\ ui'.task = "running"
       ]_vars

\* a request arrives while the asynchronous run is in its batches and is dropped
C13_Witness ==
    /\ hist.request = "rejected"
    /\ ui.task = "running"
    /\ run.pc \in SeqToSet(BatchSteps)
    /\ hist.inFlight = 1
    /\ hist.runs = 1

\* C14: in an asynchronous run the lookup table is empty while the worker
\* waits, and the worker is past its wait (it has released the old masked
\* geometry, touched the cache, baked or built) only if the panel's frame
\* counter was advanced BUFFERED_FRAME_MAX_NUM times since the worker read it.
C14_FrameWait ==
    /\ (run.async /\ run.pc = "wait") => gpu.table = {}
    /\ (run.async /\ run.pc \notin { "idle", "start", "wait" }) =>
          hist.waited >= BUFFERED_FRAME_MAX_NUM

PastRelease == run.pc \in { "plan", "cleanup" } \cup SeqToSet(BatchSteps)

\* C15: the masked geometry of the previous run is destroyed by
\* ReleaseMaskedGeometry, the first statement of OmmGeometryUpdate (in an
\* asynchronous run right after the frame wait): it is still alive while the
\* worker waits, and from the release on only BLASes built by the new run
\* exist, none at all until the new run's first build.
C15_ReleaseBeforeBatches ==
    /\ gpu.m_MaskedBlasses \cap gpu.destroyed = {}
    /\ run.pc \in { "start", "wait", "release" } =>
          \A h \in gpu.destroyed : h[1] < hist.runs - 1
    /\ PastRelease =>
          /\ \A h \in gpu.m_MaskedBlasses : h[1] = hist.runs
          /\ ~hist.built => gpu.m_MaskedBlasses = {}

\* an asynchronous second run has destroyed the first run's BLASes and has
\* built nothing yet
C15_Witness ==
    /\ run.async
    /\ run.pc = "lookup"
    /\ hist.runs = 2
    /\ ~hist.built
    /\ \E h \in gpu.destroyed : h[1] = 1
    /\ gpu.m_MaskedBlasses = {}

\* C15 as the specification words it: in an asynchronous run the previous
\* run's BLASes are destroyed only once a build of the new run has completed.
C15_AsStated ==
    (run.async /\ run.pc # "idle" /\ \E h \in gpu.destroyed : h[1] = hist.runs - 1) => hist.built

\* the jobs of the first k batches
RECURSIVE SumCounts(_, _)
SumCounts(bs, k) == IF k = 0 THEN 0 ELSE bs[k].count + SumCounts(bs, k - 1)

\* C16: while batch k+1 is processed m_OmmUpdateProgress is the sum of the
\* counts of batches 1..k; it never exceeds the number of jobs, equals it when
\* the last batch is done, and is 0 when no run is in progress.
C16_Progress ==
    /\ run.m_OmmUpdateProgress <= Len(m_OmmAlphaGeometry)
    /\ run.pc \in SeqToSet(BatchSteps) =>
          run.m_OmmUpdateProgress = SumCounts(run.batches, run.batchId - 1)
    /\ run.pc = "cleanup" =>
          /\ run.m_OmmUpdateProgress = SumCounts(run.batches, Len(run.batches))
          /\ run.m_OmmUpdateProgress = Len(m_OmmAlphaGeometry)
    /\ run.pc = "idle" => run.m_OmmUpdateProgress = 0

\* the single batch of a synchronous GPU run is done: progress is 3 of 3
C16_Witness ==
    /\ run.pc = "cleanup"
    /\ run.batches = WholeBatch
    /\ run.m_OmmUpdateProgress = 3
    /\ hist.runs = 2

C18_RunsFinish == (run.pc # "idle") ~> (run.pc = "idle")

\* the jobs of the current batch whose output has an empty segment
Degenerate == { j \in SeqToSet(BatchJobs(CurrentBatch)) : ~IsDataValid(run.outData[j]) }

\* C19: degenerate outputs are never cached.  No record of the cache file has
\* a segment of size 0; and right after the persistence step of a batch, no
\* job whose output has an empty segment was handed to SaveMasksToDisc, and
\* when no job was handed to it the file is as it was before the step: none
\* is created and no record is added.
C19_DegenerateNotCached ==
    ~crashed =>
        /\ \A k \in 1 .. NumRecords(file) :
              \A sgm \in Segments : RecordHeaders(file, 0)[k].sizes[sgm] > 0
        /\ (hist.batch.saveCalled /\ run.pc = AfterBake) =>
              /\ hist.batch.saved \cap Degenerate = {}
              /\ hist.batch.saved = {} =>
                    /\ fileExists = hist.batch.existedBefore
                    /\ NumRecords(file) = hist.batch.recsBefore

\* a batch whose only baked job came back with an empty segment has been
\* through SaveMaskCache with no cache file present, and there is still none
C19_Witness ==
    /\ ~crashed
    /\ hist.batch.saveCalled /\ run.pc = AfterBake
    /\ Degenerate # {}
    /\ Degenerate \subseteq hist.batch.missed
    /\ hist.batch.saved = {}
    /\ ~hist.batch.existedBefore
    /\ ~fileExists

\* the jobs of the current batch that come after the first failed write
AfterFirstFailure == { j \in SeqToSet(BatchJobs(CurrentBatch)) : j > hist.batch.failed[1] }

C25_NoCacheOpsWhenDisabled ==
    [][ (run.pc # "idle" /\ ~run.bakeDesc.enableCache) =>
            /\ fileExists' = fileExists
            /\ file' = file
            /\ index' = index
            /\ crashed' = crashed ]_vars

\* C26 as stated: in a run with the GPU baker, every job of a batch's bake
\* queue was in the queue of the run's sizing probe.
C26_BakedWereProbed ==
    (~crashed /\ run.pc = "bake" /\ run.bakeDesc.type = GPU) =>
        SeqToSet(run.bakeQueue) \subseteq SeqToSet(run.probeQueue)


\* C29: no handle GetMaskedBlas returns to the render path was destroyed when
\* it was returned, and whenever a frame can be rendered every handle in the
\* lookup table is live.
C29_LookupsLive ==
    /\ ~calc.stale
    /\ (Alive /\ ui.pc = "frame") => gpu.table \cap gpu.destroyed = {}

\* the frame rendered last, during the builds of an asynchronous second run,
\* was given BLASes of that run while those of the first run are destroyed
C29_Witness ==
    /\ run.async
    /\ run.pc \in SeqToSet(BatchSteps)
    /\ calc.blas = { 2 }
    /\ \E h \in gpu.destroyed : h[1] = 1
    /\ ~calc.stale

(***************************************************************************)
(* Part 9.  Single calls of the pure functions                             *)
(*                                                                         *)
(* SpecCalc makes one call of CalculateIdentifier, on any pair of words,   *)
(* or one call of ReadMaskFromCache, with any choice of null destinations, *)
(* on a file of one or two records, or one call of BakeOpacityMicroMapsCpu *)
(* on a queue of all the instances, with any result of each bake.          *)
(***************************************************************************)

\* the values of a uint64_t, scaled to HashBits bits
Words == 0 .. (2 ^ HashBits - 1)

\* data.data[i] non-null or null, for every segment
Destinations == [Segments -> BOOLEAN]

\* the file and the index after the first job's masks were saved under the
\* last configuration and then under configuration c
TwoRecords(c) ==
    SaveMasksToDisc(
        SaveMasksToDisc(Invalidated, BakedMasks[Len(BakeDescs)][1], StateHash[Len(BakeDescs)],
                        InstanceHash[1], BakedMasks[Len(BakeDescs)][1].ommIndexFormat, "none").w,
        BakedMasks[c][1], StateHash[c], InstanceHash[1],
        BakedMasks[c][1].ommIndexFormat, "none").w

NoCall ==
    [ pc |-> "called", op |-> "None", a |-> 0, b |-> 0, identifier |-> 0,
      cfg |-> 1, dests |-> [k \in Segments |-> FALSE], wantFormat |-> FALSE,
      ret |-> FALSE, out |-> NoOutput,
      queue |-> <<>>, outcomes |-> <<>>, baked |-> {} ]

InitCalc ==
    /\ \/ \E a \in Words, b \in Words :
             calc = [NoCall EXCEPT !.op = "Identifier", !.a = a, !.b = b]
       \/ \E c \in Configs, dests \in Destinations, wantFormat \in BOOLEAN :
             calc = [NoCall EXCEPT !.op = "Read", !.cfg = c, !.dests = dests,
                                   !.wantFormat = wantFormat]
       \/ \E outcomes \in [RunJobs -> CpuOutcomes] :
             calc = [NoCall EXCEPT !.op = "CpuBake", !.queue = [j \in RunJobs |-> j],
                                   !.outcomes = outcomes]
    /\ cacheIdle
    /\ schedIdle
    /\ runIdle

\* OmmHelper.cpp:530-534
Identify ==
    /\ calc.pc = "called"
    /\ calc.op = "Identifier"
    /\ calc' = [calc EXCEPT !.pc = "done", !.identifier = CalculateIdentifier(calc.a, calc.b)]
    /\ UNCHANGED schedVars
    /\ UNCHANGED cacheVars
    /\ UNCHANGED runVars

\* OmmHelper.cpp:591-634
ReadSegments ==
    /\ calc.pc = "called"
    /\ calc.op = "Read"
    /\ \E r \in { ReadMaskFromCache(TwoRecords(calc.cfg),
                                    [dests |-> calc.dests, wantFormat |-> calc.wantFormat],
                                    StateHash[calc.cfg], InstanceHash[1]) } :
          calc' = [calc EXCEPT !.pc = "done", !.ret = r.ret, !.out = r.out]
    /\ UNCHANGED schedVars
    /\ UNCHANGED cacheVars
    /\ UNCHANGED runVars

\* OmmHelper.cpp:214-320; ret: the call returned (no std::abort())
BakeCpu ==
    /\ calc.pc = "called"
    /\ calc.op = "CpuBake"
    /\ calc' = [calc EXCEPT !.pc = "done",
                            !.baked = CpuBaked(calc.queue, 1, calc.outcomes),
                            !.ret = \A k \in 1 .. Len(calc.queue) :
                                       calc.outcomes[calc.queue[k]] = "fail" =>
                                           \E m \in 1 .. k - 1 :
                                               calc.outcomes[calc.queue[m]] = "tooBig"]
    /\ UNCHANGED schedVars
    /\ UNCHANGED cacheVars
    /\ UNCHANGED runVars

NextCalc == Identify \/ ReadSegments \/ BakeCpu

SpecCalc == InitCalc /\ [][NextCalc]_vars

\* (a + b)(a + b + 1) does not overflow the word
NoOverflow(a, b) == (a + b) * (a + b + 1) < 2 ^ HashBits

\* C22: on the pairs (a, b) for which (a + b)(a + b + 1) does not overflow the
\* word, CalculateIdentifier gives no two pairs one identifier.  (That it does
\* so over all pairs of words is what C22_Witness reaches.)
C22_InjectiveWithoutOverflow ==
    (calc.pc = "done" /\ calc.op = "Identifier" /\ NoOverflow(calc.a, calc.b)) =>
        \A c \in Words, d \in Words :
            (NoOverflow(c, d) /\ CalculateIdentifier(c, d) = calc.identifier)
                => (c = calc.a /\ d = calc.b)

\* C22 witness: the identifier computed for a pair without overflow other
\* than (0, 0) is also the identifier of another pair of words
C22_Witness ==
    /\ calc.pc = "done" /\ calc.op = "Identifier"
    /\ NoOverflow(calc.a, calc.b)
    /\ calc.a > 0 /\ calc.b > 0
    /\ \E c \in Words, d \in Words :
          /\ << c, d >> # << calc.a, calc.b >>
          /\ CalculateIdentifier(c, d) = calc.identifier

\* C28 as stated: ReadMaskFromCache fills every segment that has a destination
\* with the bytes of that segment of the stored record, whichever other
\* segments have none.
C28_SegmentsIndependent ==
    (calc.pc = "done" /\ calc.op = "Read" /\ calc.ret) =>
        \A k \in Segments :
            calc.dests[k] => calc.out.data[k] = BakedMasks[calc.cfg][1].data[k]

\* C30 as stated: in a call of BakeOpacityMicroMapsCpu that returns, every job
\* of the queue whose bake did not report WORKLOAD_TOO_BIG has been baked,
\* those behind a job that did included.
C30_TooBigSkipsOneJob ==
    (calc.pc = "done" /\ calc.op = "CpuBake" /\ calc.ret) =>
        \A k \in 1 .. Len(calc.queue) :
            calc.outcomes[calc.queue[k]] # "tooBig" => calc.queue[k] \in calc.baked

=============================================================================
